---- MODULE Spec2Model ----
(***************************************************************************)
(* The UserProfile component (simulated asynchronous load) of the          *)
(* dashboard module: its four state cells, fetchUser, the delayed          *)
(* completion callback, the mount effect with its cleanup, the Reload      *)
(* buttons and the conditional panels of the render; and the Clock         *)
(* component of the same module: its effect on showBadExample with the     *)
(* setInterval it starts and the clearInterval its cleanup runs.           *)
(*                                                                         *)
(* Options (T | null) are sequences of length at most one: Null is <<>>.   *)
(* A draw of Math.random() is an integer number of thousandths, the grid   *)
(* the panels display it on (toFixed(3)); time is in milliseconds.         *)
(* The setters called by one handler or one timer callback are batched     *)
(* into a single update, so each handler is one step of the model.         *)
(***************************************************************************)
EXTENDS Integers, Sequences, FiniteSets, TLC

VARIABLES
    user,          \* useState<User | null>(null)
    loading,       \* useState(false)
    error,         \* useState<string | null>(null)
    randomNumber,  \* useState<number | null>(null)
    timers,        \* the host's pending setTimeout entries, in scheduling order
    nextId,        \* number of timers ever scheduled (the last timer handle)
    phase,         \* where the component instance is in its mount lifecycle
    strict,        \* whether the tree is rendered under StrictMode (development)
    nStarts,       \* history: mount-effect runs plus Reload clicks
    lastOp,        \* history: the last step taken
    applied,       \* history: ids of the timers whose completion wrote the state, in order
    drawn,         \* history: the value the last completion drew
    superseded,    \* history: timers still counting down when a later fetchUser ran
    disposed,      \* history: timers that were pending when an effect cleanup ran
    time,            \* Clock: useState<Date | null>(null)
    showBadExample,  \* Clock: useState(false)
    intervals,       \* Clock: handles of the host's active setInterval timers
    effectCleanup,   \* Clock: the handle the last effect setup's cleanup clears, if any
    nextInterval,    \* Clock: number of intervals ever started (the last handle)
    clockPhase,      \* Clock: where the instance is in its mount lifecycle
    now,             \* Clock: the host's time in ms
    nToggles,        \* history: clicks on the Clock's button
    clockOp          \* history: the last step of the Clock

profileVars == <<user, loading, error, randomNumber, timers, nextId, phase,
                 nStarts, lastOp, applied, drawn, superseded, disposed>>

clockVars == <<time, showBadExample, intervals, effectCleanup, nextInterval,
               clockPhase, now, nToggles, clockOp>>

vars == <<profileVars, strict, clockVars>>

(* ------------------------------ bounds -------------------------------- *)

\* Most fetchUser invocations explored in one behaviour.
MaxStarts == 4

\* Most clicks on the Clock's button explored in one behaviour.
MaxToggles == 3

\* Most interval periods the Clock is followed for.
MaxPeriods == 3

(* ------------------------- program constants -------------------------- *)

\* random > 0.7, in thousandths
Threshold == 700

\* setTimeout(..., 2000)
Delay == 2000

\* setInterval(..., 1000)
ClockPeriod == 1000

\* The step by which the model lets time pass.
Quantum == Delay \div 2

\* Values of Math.random() explored, in thousandths of [0, 1): both ends of
\* the range, the threshold with its two neighbours, and the draws 0.4 and 0.9.
Draws == {0, 400, Threshold - 1, Threshold, Threshold + 1, 900, 999}

Null == <<>>
Some(v) == <<v>>

FixedPayload == [name |-> "Jesse Zhang", email |-> "zz597375428@gmail.com"]
LoadFailure == "Failed to load user data"

(* --------------------------- component state --------------------------- *)

\* The four state cells of the component as one record.
State == [user |-> user, loading |-> loading, error |-> error,
          randomNumber |-> randomNumber]

InitialState == [user |-> Null, loading |-> FALSE, error |-> Null,
                 randomNumber |-> Null]

SetState(s) ==
    /\ user' = s.user
    /\ loading' = s.loading
    /\ error' = s.error
    /\ randomNumber' = s.randomNumber

\* fetchUser, the synchronous part: the four setters before setTimeout.
fetchUserResetKeepsRandom(s) ==
    [s EXCEPT !.loading = TRUE, !.error = Null, !.user = Null]

fetchUserReset(s) ==
    [s EXCEPT !.loading = TRUE, !.error = Null, !.user = Null,
              !.randomNumber = Null]

\* The delay fetchUser gives the timer of its id-th request.
ShorterLaterDelay(id) == IF id = 1 THEN Delay ELSE Delay - Quantum

TimerDelay(id) == Delay

\* setTimeout: a new entry behind the ones already scheduled.
setTimeout(q, id) == Append(q, [id |-> id, remaining |-> TimerDelay(id)])

\* The setTimeout callback of fetchUser, given the value Math.random() returned.
CallbackNoMutualClear(s, random) ==
    IF random > Threshold
    THEN [s EXCEPT !.randomNumber = Some(random), !.error = Some(LoadFailure),
                   !.loading = FALSE]
    ELSE [s EXCEPT !.randomNumber = Some(random), !.user = Some(FixedPayload),
                   !.loading = FALSE]

CallbackThresholdInclusive(s, random) ==
    IF random >= Threshold
    THEN [s EXCEPT !.randomNumber = Some(random), !.error = Some(LoadFailure),
                   !.user = Null, !.loading = FALSE]
    ELSE [s EXCEPT !.randomNumber = Some(random), !.user = Some(FixedPayload),
                   !.error = Null, !.loading = FALSE]

CallbackKeepsLoading(s, random) ==
    IF random > Threshold
    THEN [s EXCEPT !.randomNumber = Some(random), !.error = Some(LoadFailure),
                   !.user = Null]
    ELSE [s EXCEPT !.randomNumber = Some(random), !.user = Some(FixedPayload),
                   !.error = Null, !.loading = FALSE]

TimerCallback(s, random) ==
    IF random > Threshold
    THEN [s EXCEPT !.randomNumber = Some(random), !.error = Some(LoadFailure),
                   !.user = Null, !.loading = FALSE]
    ELSE [s EXCEPT !.randomNumber = Some(random), !.user = Some(FixedPayload),
                   !.error = Null, !.loading = FALSE]

\* The timer queue q once the callback that drew random has run: the callback
\* calls no setTimeout, so the queue is as it found it (id is the handle a
\* new timer would get).
CallbackRetriesFailure(q, id, random) ==
    IF random > Threshold THEN setTimeout(q, id) ELSE q

CallbackTimers(q, id, random) == q

(* ------------------------------- render -------------------------------- *)

\* The panels the conditional blocks of the returned markup show for state s.
Panels(s) ==
    (IF ~s.loading /\ s.error = Null /\ s.user = Null THEN {"idle"} ELSE {})
    \cup (IF s.loading THEN {"loading"} ELSE {})
    \cup (IF s.user # Null THEN {"success"} ELSE {})
    \cup (IF s.error # Null THEN {"failure"} ELSE {})

\* A Reload User button is on screen (one in each result panel).
ReloadVisible(s) == Panels(s) \cap {"success", "failure"} # {}

(* ----------------------------- timer queue ----------------------------- *)

Pending == {timers[i].id : i \in DOMAIN timers}

DueIndexes(q) == {i \in DOMAIN q : q[i].remaining = 0}

\* The host runs due timers in the order they were scheduled.
NextDue(q) == CHOOSE i \in DueIndexes(q) : \A j \in DueIndexes(q) : i <= j

RemoveAt(q, i) == SubSeq(q, 1, i - 1) \o SubSeq(q, i + 1, Len(q))

Elapse(q, dt) ==
    [i \in DOMAIN q |->
        [q[i] EXCEPT !.remaining = IF @ > dt THEN @ - dt ELSE 0]]

(* ------------------------------ actions -------------------------------- *)

Init ==
    /\ user = InitialState.user
    /\ loading = InitialState.loading
    /\ error = InitialState.error
    /\ randomNumber = InitialState.randomNumber
    /\ timers = <<>>
    /\ nextId = 0
    /\ phase = "rendered"
    /\ strict \in BOOLEAN
    /\ nStarts = 0
    /\ lastOp = "render"
    /\ applied = <<>>
    /\ drawn = Null
    /\ superseded = {}
    /\ disposed = {}
    /\ time = Null
    /\ showBadExample = FALSE
    /\ intervals = {}
    /\ effectCleanup = Null
    /\ nextInterval = 0
    /\ clockPhase = "rendered"
    /\ now = 0
    /\ nToggles = 0
    /\ clockOp = "render"

\* fetchUser(): reset the four cells and schedule the completion.
fetchUser ==
    /\ SetState(fetchUserReset(State))
    /\ nextId' = nextId + 1
    /\ timers' = setTimeout(timers, nextId + 1)
    /\ superseded' = superseded \cup
                        {timers[i].id : i \in {j \in DOMAIN timers :
                                                 timers[j].remaining > 0}}

\* The effect setup: on mount, and once more under StrictMode after the
\* simulated unmount.
EffectMount ==
    /\ phase \in {"rendered", "strictCleaned"}
    /\ nStarts < MaxStarts
    /\ fetchUser
    /\ phase' = IF strict /\ phase = "rendered" THEN "strictMounted" ELSE "mounted"
    /\ nStarts' = nStarts + 1
    /\ lastOp' = "mount"
    /\ UNCHANGED <<strict, applied, drawn, disposed, clockVars>>

\* The effect cleanup: it logs and nothing else.
EffectCleanup(next) ==
    /\ phase' = next
    /\ lastOp' = "cleanup"
    /\ disposed' = disposed \cup Pending
    /\ UNCHANGED <<user, loading, error, randomNumber, timers, nextId, strict,
                   nStarts, applied, drawn, superseded, clockVars>>

\* StrictMode's simulated unmount between the two effect setups.
StrictCleanup ==
    /\ phase = "strictMounted"
    /\ EffectCleanup("strictCleaned")

\* The component instance is removed from the tree.
Unmount ==
    /\ phase = "mounted"
    /\ EffectCleanup("unmounted")

\* A click on one of the Reload User buttons.
ReloadClick ==
    /\ phase = "mounted"
    /\ ReloadVisible(State)
    /\ nStarts < MaxStarts
    /\ fetchUser
    /\ nStarts' = nStarts + 1
    /\ lastOp' = "reload"
    /\ UNCHANGED <<phase, strict, applied, drawn, disposed, clockVars>>

\* Time passes for the pending timers.
Tick ==
    /\ phase \in {"mounted", "unmounted"}
    /\ \E i \in DOMAIN timers : timers[i].remaining > 0
    /\ timers' = Elapse(timers, Quantum)
    /\ lastOp' = "tick"
    /\ UNCHANGED <<user, loading, error, randomNumber, nextId, phase, strict,
                   nStarts, applied, drawn, superseded, disposed, clockVars>>

\* The host runs the callback of the first due timer. The setters of a
\* component that is no longer mounted change nothing.
TimerFire ==
    /\ phase \in {"mounted", "unmounted"}
    /\ DueIndexes(timers) # {}
    /\ \E random \in Draws :
        LET i == NextDue(timers)
            rest == RemoveAt(timers, i)
            q == CallbackTimers(rest, nextId + 1, random)
        IN
        /\ drawn' = Some(random)
        /\ IF phase = "mounted"
           THEN /\ SetState(TimerCallback(State, random))
                /\ applied' = Append(applied, timers[i].id)
           ELSE UNCHANGED <<user, loading, error, randomNumber, applied>>
        /\ timers' = q
        /\ nextId' = nextId + (Len(q) - Len(rest))
    /\ lastOp' = "timer"
    /\ UNCHANGED <<phase, strict, nStarts, superseded, disposed, clockVars>>

Next ==
    \/ EffectMount
    \/ StrictCleanup
    \/ Unmount
    \/ ReloadClick
    \/ Tick
    \/ TimerFire

Spec == Init /\ [][Next]_vars

\* The host's event loop runs due timers and lets time pass; React runs the
\* effect setup and StrictMode's cleanup in the commit that mounts.
LiveSpec ==
    /\ Init /\ [][Next]_vars
    /\ WF_vars(EffectMount)
    /\ WF_vars(StrictCleanup)
    /\ WF_vars(Tick)
    /\ WF_vars(TimerFire)


(* -------------------------------- Clock -------------------------------- *)

\* The Clock's effect setup for the value show of showBadExample, with ivs
\* the active intervals and id the handle a new interval gets: without the
\* bad example it sets the time and starts an interval, whose handle the
\* returned cleanup clears; with it the effect does nothing and returns none.
ClockSetup(show, ivs, id) ==
    IF ~show
    THEN [intervals |-> ivs \cup {id}, cleanup |-> Some(id), setsTime |-> TRUE]
    ELSE [intervals |-> ivs, cleanup |-> Null, setsTime |-> FALSE]

\* The cleanup the last setup returned, if it returned one: clearInterval.
ClockCleanupLeaks(ivs, c) == ivs

ClockCleanup(ivs, c) == IF c = Null THEN ivs ELSE ivs \ {c[1]}

\* Run the effect setup on the intervals ivs left by the cleanup before it.
ClockRunSetup(show, ivs) ==
    LET r == ClockSetup(show, ivs, nextInterval + 1) IN
    /\ intervals' = r.intervals
    /\ effectCleanup' = r.cleanup
    /\ nextInterval' = IF r.cleanup = Null THEN nextInterval ELSE nextInterval + 1
    /\ time' = IF r.setsTime THEN Some(now) ELSE time

\* The effect setup on mount, and once more under StrictMode.
ClockEffectMount ==
    /\ clockPhase \in {"rendered", "strictCleaned"}
    /\ ClockRunSetup(showBadExample, intervals)
    /\ clockPhase' = IF strict /\ clockPhase = "rendered"
                     THEN "strictMounted" ELSE "mounted"
    /\ clockOp' = "mount"
    /\ UNCHANGED <<showBadExample, now, nToggles, strict, profileVars>>

\* StrictMode's simulated unmount, or the removal of the instance: the
\* cleanup of the last setup runs.
ClockRunCleanup(next) ==
    /\ intervals' = ClockCleanup(intervals, effectCleanup)
    /\ effectCleanup' = Null
    /\ clockPhase' = next
    /\ clockOp' = "cleanup"
    /\ UNCHANGED <<time, showBadExample, nextInterval, now, nToggles, strict,
                   profileVars>>

ClockStrictCleanup ==
    /\ clockPhase = "strictMounted"
    /\ ClockRunCleanup("strictCleaned")

ClockUnmount ==
    /\ clockPhase = "mounted"
    /\ ClockRunCleanup("unmounted")

\* A click on the Clock's button: showBadExample flips, and the commit runs
\* the effect again (its dependency changed), cleanup before setup.
ToggleClick ==
    /\ clockPhase = "mounted"
    /\ nToggles < MaxToggles
    /\ showBadExample' = ~showBadExample
    /\ ClockRunSetup(~showBadExample, ClockCleanup(intervals, effectCleanup))
    /\ nToggles' = nToggles + 1
    /\ clockOp' = "toggle"
    /\ UNCHANGED <<clockPhase, now, strict, profileVars>>

\* One interval period passes: every active interval runs its callback,
\* which sets the time (the setter of an unmounted component changes nothing).
IntervalPeriod ==
    /\ clockPhase \in {"mounted", "unmounted"}
    /\ now < MaxPeriods * ClockPeriod
    /\ now' = now + ClockPeriod
    /\ time' = IF intervals # {} /\ clockPhase = "mounted"
               THEN Some(now + ClockPeriod) ELSE time
    /\ clockOp' = "period"
    /\ UNCHANGED <<showBadExample, intervals, effectCleanup, nextInterval,
                   clockPhase, nToggles, strict, profileVars>>

ClockNext ==
    \/ ClockEffectMount
    \/ ClockStrictCleanup
    \/ ClockUnmount
    \/ ToggleClick
    \/ IntervalPeriod

ClockSpec == Init /\ [][ClockNext]_vars

(* --------------------------- state vocabulary -------------------------- *)

Idle == ~loading /\ user = Null /\ error = Null
Loading == loading /\ user = Null /\ error = Null
Succeeded == user # Null /\ ~loading /\ error = Null
Failed == error # Null /\ ~loading /\ user = Null

(* ------------------------------- claims -------------------------------- *)

\* The timer whose callback a TimerFire step runs.
FiringId == timers[NextDue(timers)].id

View == <<user, loading, error, randomNumber>>

\* C1: in every reachable state exactly one of Idle, Loading, Succeeded and
\* Failed holds; in particular user and error are never both non-null.
C1_ExactlyOneVariant ==
    /\ Cardinality({k \in {"Idle", "Loading", "Succeeded", "Failed"} :
            \/ k = "Idle" /\ Idle
            \/ k = "Loading" /\ Loading
            \/ k = "Succeeded" /\ Succeeded
            \/ k = "Failed" /\ Failed}) = 1
    /\ ~(user # Null /\ error # Null)

\* The second of the two completions of a StrictMode mount -> cleanup -> mount
\* has just written the state.
C1_Witness ==
    strict /\ nStarts = 2 /\ lastOp = "timer" /\ applied = <<1, 2>>

\* C2: the completion of a request that a later fetchUser superseded before
\* its delay had elapsed is a no-op: it leaves user, error, loading and
\* randomNumber unchanged.
C2_StaleCompletionIsNoOp ==
    [][(lastOp' = "timer" /\ phase = "mounted" /\ FiringId \in superseded)
          => View' = View]_vars

\* C3: no timer that was pending when the effect cleanup ran remains pending
\* after it, and no such timer's completion writes the state.
C3_CleanupCancelsPending ==
    /\ disposed \cap Pending = {}
    /\ \A i \in DOMAIN applied : applied[i] \notin disposed

\* C4: whatever the state before it, a fetchUser step (from the mount effect
\* or a Reload click) leaves loading = TRUE with user, error and randomNumber
\* all null.
C4_StartLeavesLoading ==
    lastOp \in {"mount", "reload"} => Loading /\ randomNumber = Null

\* fetchUser has just run from a result panel (which showed a drawn value)
\* while the timer of an earlier request is still pending.
C4_Witness ==
    lastOp = "reload" /\ applied # <<>> /\ Len(timers) = 2

\* C5: after a single fetchUser whose completion drew d, d <= 0.7 gives
\* Succeeded with the fixed payload and d > 0.7 gives Failed with the failure
\* message; the payload is the same in every state.
C5_SingleStartOutcome ==
    /\ user \in {Null, Some(FixedPayload)}
    /\ (nStarts = 1 /\ applied = <<1>>) =>
          /\ randomNumber = drawn
          /\ drawn[1] <= Threshold =>
                Succeeded /\ user = Some(FixedPayload)
          /\ drawn[1] > Threshold =>
                Failed /\ error = Some(LoadFailure)

\* The single request completed with a draw of exactly 0.7.
C5_Witness ==
    nStarts = 1 /\ applied = <<1>> /\ drawn = Some(Threshold) /\ Succeeded

\* C6: the state becomes Succeeded or Failed only by a step from Loading,
\* and a state that is Succeeded or Failed changes only by a fetchUser.
C6_StateMachine ==
    [][/\ (Succeeded' /\ ~Succeeded) \/ (Failed' /\ ~Failed) => Loading
       /\ ((Succeeded \/ Failed) /\ View' # View)
             => lastOp' \in {"mount", "reload"}]_vars

\* C7: the completions that write the state do so in the order their
\* requests were started.
C7_CompletionsInStartOrder ==
    \A i, j \in DOMAIN applied : i < j => applied[i] < applied[j]

\* Every request explored has completed and written the state, among them
\* one that a later request had superseded.
C7_Witness ==
    Len(applied) = MaxStarts /\ superseded # {}

\* C8: while the component is mounted, a state with loading = TRUE has a
\* pending timer, every completion sets loading = FALSE, and every Loading
\* state is eventually followed by Succeeded or Failed.
C8_LoadingEnds ==
    /\ [](loading /\ phase # "unmounted" => timers # <<>>)
    /\ [][lastOp' = "timer" /\ phase = "mounted" => ~loading']_vars
    /\ (loading /\ phase # "unmounted")
          ~> (Succeeded \/ Failed \/ phase = "unmounted")

\* A reloaded request has completed with nothing left pending.
C8_Witness ==
    /\ lastOp = "timer" /\ phase = "mounted" /\ nStarts >= 2
    /\ timers = <<>> /\ (Succeeded \/ Failed)

\* C9: as many timers were scheduled as fetchUser was triggered, a
\* completion leaves one timer fewer pending, and a Failed state with no
\* timer pending is left only by a Reload click.
C9_NoAutomaticRetry ==
    /\ [](nextId = nStarts)
    /\ [][lastOp' = "timer" => Len(timers') = Len(timers) - 1]_vars
    /\ [][(Failed /\ timers = <<>> /\ ~Failed') => lastOp' = "reload"]_vars

\* A load has failed and nothing is pending.
C9_Witness ==
    Failed /\ timers = <<>> /\ lastOp = "timer" /\ phase = "mounted"

\* C10: the render shows exactly one of the loading indicator, the success
\* panel and the failure panel, and nothing else.
C10_ExactlyOnePanel ==
    /\ Cardinality(Panels(State) \cap {"loading", "success", "failure"}) = 1
    /\ Panels(State) \subseteq {"loading", "success", "failure"}

\* C11: on the initial render, before any effect has run, user, error and
\* randomNumber are null, loading is TRUE and only the loading indicator is
\* shown.
C11_InitialRenderLoading ==
    phase = "rendered" =>
        /\ user = Null /\ error = Null /\ randomNumber = Null
        /\ loading = TRUE
        /\ Panels(State) = {"loading"}

\* C13: loading is TRUE exactly when a delayed completion is pending; in
\* particular nothing is pending while a result panel is shown.
C13_LoadingIffPending ==
    phase # "unmounted" =>
        /\ loading <=> timers # <<>>
        /\ ReloadVisible(State) => timers = <<>>

\* C14: randomNumber is null exactly when user and error both are; with a
\* user it is at most 0.7, with an error it is above 0.7; and while the
\* component is mounted a displayed value is the draw of the completion that
\* wrote the result.
C14_RandomAgreesWithOutcome ==
    /\ randomNumber = Null <=> (user = Null /\ error = Null)
    /\ user # Null => randomNumber[1] <= Threshold
    /\ error # Null => randomNumber[1] > Threshold
    /\ (phase = "mounted" /\ randomNumber # Null) => randomNumber = drawn

\* A later completion has replaced an earlier result with a failure drawn
\* just above the threshold.
C14_Witness ==
    /\ lastOp = "timer" /\ phase = "mounted" /\ Len(applied) >= 2
    /\ Failed /\ randomNumber = Some(Threshold + 1)

\* C12: at most one interval is active; exactly one while the Clock is
\* mounted with showBadExample = FALSE, none while it is mounted with
\* showBadExample = TRUE, and none once it is unmounted.
C12_OneIntervalWhileMounted ==
    /\ Cardinality(intervals) <= 1
    /\ clockPhase \in {"strictMounted", "mounted"} =>
          Cardinality(intervals) = IF showBadExample THEN 0 ELSE 1
    /\ clockPhase \in {"strictCleaned", "unmounted"} => intervals = {}

\* Under StrictMode, after the bad example was switched on and off again,
\* the Clock runs the interval of its fourth effect setup.
C12_Witness ==
    /\ strict /\ clockPhase = "mounted" /\ ~showBadExample /\ nToggles = 2
    /\ intervals = {nextInterval} /\ nextInterval = 3

====
